---- MODULE Spec2Model ----
(***************************************************************************)
(* Data ingestion pipeline of the personal finance dashboard:             *)
(* validate_data_format, clean_data, the three source loaders, the        *)
(* fallback resolver load_data_with_fallback (src/utils/data_loader.py)   *)
(* and calculate_kpis (src/app.py).                                        *)
(*                                                                         *)
(* Representation.  A text is a sequence of one-character strings, so     *)
(* that str.strip, CSV formatting and number parsing are computed.  A     *)
(* cell is a record [k, n, s]: k = "int" (value n), k = "str" (text s)    *)
(* or k = "nan" (pandas' missing value).  A DataFrame is a record         *)
(* [columns, blocks]: columns is the sequence of column names, blocks is  *)
(* a run-length encoding of the rows in order: a block [cells, n] stands  *)
(* for n consecutive rows with the cells `cells` (a function from column  *)
(* name to cell).  No block has n = 0.  The run-length encoding lets the  *)
(* model carry files of 15,000 rows against the real MAX_ROWS.            *)
(***************************************************************************)
EXTENDS Integers, Sequences, FiniteSets, TLC

VARIABLES
    now,            \* the clock, in seconds
    remote,         \* the state of the remote sheet (a name of RemoteStates)
    cache,          \* the memoized result of load_google_sheets_data
    uploaded_file,  \* the widget's file at the last run of the script
    df,             \* the table main() works on
    data_source,    \* its provenance label; "none" while no run is in progress
    kpis,           \* calculate_kpis of it
    run,            \* what the last run did and saw (for the properties)
    raw,            \* SpecPure: a parsed frame
    stage,          \* SpecPure: how far the pipeline got on it
    validation,     \* SpecPure: validate_data_format(raw)
    cleaned,        \* SpecPure: clean_data(raw)
    pure_kpis       \* SpecPure: calculate_kpis(cleaned)

\* ------------------------------------------------------------------ texts

Digits == <<"0", "1", "2", "3", "4", "5", "6", "7", "8", "9">>

Whitespace == {" ", "\t"}

DigitOf(c) == CHOOSE d \in 0..9 : Digits[d + 1] = c

IsDigit(c) == \E d \in 0..9 : Digits[d + 1] = c

RECURSIVE NatToText(_)
\* str(n) for n >= 0: the decimal digits, most significant first
NatToText(n) ==
    IF n < 10 THEN <<Digits[n + 1]>>
    ELSE NatToText(n \div 10) \o <<Digits[(n % 10) + 1]>>

IntToText_unsigned(n) == IF n < 0 THEN NatToText(0 - n) ELSE NatToText(n)

\* str(n) of a Python int
IntToText(n) == IF n < 0 THEN <<"-">> \o NatToText(0 - n) ELSE NatToText(n)

RECURSIVE DigitsToNat(_, _)
DigitsToNat(s, acc) ==
    IF s = <<>> THEN acc
    ELSE DigitsToNat(Tail(s), acc * 10 + DigitOf(Head(s)))

AllDigits(s) == s # <<>> /\ \A i \in 1..Len(s) : IsDigit(s[i])

\* whether a text is a decimal integer literal: optional sign, then digits
IsIntText(s) ==
    /\ s # <<>>
    /\ IF Head(s) \in {"-", "+"} THEN AllDigits(Tail(s)) ELSE AllDigits(s)

TextToInt(s) ==
    IF Head(s) = "-" THEN 0 - DigitsToNat(Tail(s), 0)
    ELSE IF Head(s) = "+" THEN DigitsToNat(Tail(s), 0)
    ELSE DigitsToNat(s, 0)

RECURSIVE LStrip(_)
LStrip(s) ==
    IF s # <<>> /\ Head(s) \in Whitespace THEN LStrip(Tail(s)) ELSE s

RECURSIVE RStrip(_)
RStrip(s) ==
    IF s # <<>> /\ s[Len(s)] \in Whitespace
    THEN RStrip(SubSeq(s, 1, Len(s) - 1)) ELSE s

\* str.strip(): leading and trailing whitespace removed
Strip(s) == RStrip(LStrip(s))

IsTrimmed(s) ==
    s = <<>> \/ (Head(s) \notin Whitespace /\ s[Len(s)] \notin Whitespace)

\* ------------------------------------------------------------------ cells

NaN == [k |-> "nan", n |-> 0, s |-> <<>>]

IntCell(i) == [k |-> "int", n |-> i, s |-> <<>>]

StrCell(t) == [k |-> "str", n |-> 0, s |-> t]

IsNull(c) == c.k = "nan"

\* pd.to_numeric(value, errors='coerce') on one cell
ToNumeric(c) ==
    IF c.k = "int" THEN c
    ELSE IF c.k = "str" /\ IsIntText(c.s) THEN IntCell(TextToInt(c.s))
    ELSE NaN

\* Series.astype(str) on one cell: str(value); the missing value becomes "nan"
AsTypeStr(c) ==
    IF c.k = "str" THEN c
    ELSE IF c.k = "int" THEN StrCell(IntToText(c.n))
    ELSE StrCell(<<"n", "a", "n">>)

\* Series.str.strip() on one cell of strings
StrStrip(c) == IF c.k = "str" THEN StrCell(Strip(c.s)) ELSE c

\* ------------------------------------------------------------- DataFrames

\* pd.DataFrame(): no columns, no rows
EmptyFrame == [columns |-> <<>>, blocks |-> <<>>]

ColumnSet(frame) == {frame.columns[i] : i \in 1..Len(frame.columns)}

RECURSIVE CountRows(_)
CountRows(blocks) ==
    IF blocks = <<>> THEN 0 ELSE Head(blocks).n + CountRows(Tail(blocks))

\* len(df)
NRows(frame) == CountRows(frame.blocks)

\* df.empty: any axis of length 0
IsEmpty(frame) == Len(frame.columns) = 0 \/ NRows(frame) = 0

RECURSIVE TakeRows(_, _)
TakeRows(blocks, k) ==
    IF k <= 0 \/ blocks = <<>> THEN <<>>
    ELSE IF Head(blocks).n <= k
         THEN <<Head(blocks)>> \o TakeRows(Tail(blocks), k - Head(blocks).n)
         ELSE <<[cells |-> Head(blocks).cells, n |-> k]>>

HeadFrame_short(frame, k) ==
    [columns |-> frame.columns, blocks |-> TakeRows(frame.blocks, k - 1)]

\* df.head(k): the first k rows, in order
HeadFrame(frame, k) ==
    [columns |-> frame.columns, blocks |-> TakeRows(frame.blocks, k)]

RECURSIVE MakeCells(_, _)
\* the cells of one row: the column names[j] holds values[j]
MakeCells(names, values) ==
    IF Len(names) = 1 THEN Head(names) :> Head(values)
    ELSE (Head(names) :> Head(values)) @@ MakeCells(Tail(names), Tail(values))

\* ------------------------------------------------------------- validation

required_columns_short == <<"Type", "Category", "Amount">>

required_columns == <<"Month", "Type", "Category", "Amount">>

\* [col for col in required_columns if col not in df.columns]
missing_columns(frame) ==
    SelectSeq(required_columns, LAMBDA col : col \notin ColumnSet(frame))

\* Whether pd.to_numeric(df['Amount'], errors='coerce') raises.  With
\* errors='coerce' a value that does not parse becomes NaN: for the scalar
\* cells a CSV or spreadsheet parse produces, nothing is raised.
ToNumericRaises(frame) == FALSE

validate_data_format(frame) ==
    IF IsEmpty(frame)
    THEN [is_valid |-> FALSE, error_message |-> "File is empty"]
    ELSE IF missing_columns(frame) # <<>>
    THEN [is_valid |-> FALSE, error_message |-> "Missing required columns"]
    ELSE IF ToNumericRaises(frame)
    THEN [is_valid |-> FALSE,
          error_message |-> "Amount column must contain numeric values"]
    ELSE [is_valid |-> TRUE, error_message |-> "Valid format"]

\* --------------------------------------------------------------- cleaning

text_columns == <<"Month", "Type", "Category">>

\* one row after df_clean['Amount'] = pd.to_numeric(..., errors='coerce')
CoerceAmount(cells) == [cells EXCEPT !["Amount"] = ToNumeric(@)]

\* the rows that dropna(subset=['Amount']) keeps, in order
DropNaAmount(blocks) == SelectSeq(blocks, LAMBDA b : ~IsNull(b.cells["Amount"]))

StandardizeText_nostrip(cells) ==
    [c \in DOMAIN cells |->
        IF \E i \in 1..Len(text_columns) : text_columns[i] = c
        THEN AsTypeStr(cells[c])
        ELSE cells[c]]

\* one row after df_clean[col] = df_clean[col].astype(str).str.strip()
\* for each text column that is present
StandardizeText(cells) ==
    [c \in DOMAIN cells |->
        IF \E i \in 1..Len(text_columns) : text_columns[i] = c
        THEN StrStrip(AsTypeStr(cells[c]))
        ELSE cells[c]]

\* one row after df_clean['Description'] = df_clean['Category']
AddDescription(cells) ==
    [c \in DOMAIN cells \cup {"Description"} |->
        IF c = "Description" THEN cells["Category"] ELSE cells[c]]

clean_data(frame) ==
    LET coerced == [i \in 1..Len(frame.blocks) |->
                       [cells |-> CoerceAmount(frame.blocks[i].cells),
                        n |-> frame.blocks[i].n]]
        kept == DropNaAmount(coerced)
        standard == [i \in 1..Len(kept) |->
                        [cells |-> StandardizeText(kept[i].cells),
                         n |-> kept[i].n]]
    IN  IF "Description" \notin ColumnSet(frame)
        THEN [columns |-> Append(frame.columns, "Description"),
              blocks |-> [i \in 1..Len(standard) |->
                             [cells |-> AddDescription(standard[i].cells),
                              n |-> standard[i].n]]]
        ELSE [columns |-> frame.columns, blocks |-> standard]

\* ------------------------------------------------------------------- KPIs

T_Income == <<"I", "n", "c", "o", "m", "e">>
T_Fixed == <<"F", "i", "x", "e", "d">>
T_Variable == <<"V", "a", "r", "i", "a", "b", "l", "e">>
T_Investment == <<"I", "n", "v", "e", "s", "t", "m", "e", "n", "t">>

RECURSIVE SumAmount(_, _)
\* df[df['Type'].isin(types)]['Amount'].sum(); NaN amounts are skipped
SumAmount(blocks, types) ==
    IF blocks = <<>> THEN 0
    ELSE LET b == Head(blocks)
             hit == /\ b.cells["Type"].k = "str"
                    /\ b.cells["Type"].s \in types
                    /\ b.cells["Amount"].k = "int"
         IN  (IF hit THEN b.cells["Amount"].n * b.n ELSE 0)
             + SumAmount(Tail(blocks), types)

Abs(x) == IF x < 0 THEN 0 - x ELSE x

calculate_kpis_with_investments(frame) ==
    LET total_income == SumAmount(frame.blocks, {T_Income})
        total_expenses == SumAmount(frame.blocks, {T_Fixed, T_Variable})
        total_investments == SumAmount(frame.blocks, {T_Investment})
        net_income == total_income + total_expenses + total_investments
    IN  [total_income |-> total_income,
         total_expenses |-> Abs(total_expenses),
         total_investments |-> Abs(total_investments),
         net_income |-> net_income,
         savings_rate |-> IF total_income > 0
                          THEN [num |-> net_income * 100, den |-> total_income]
                          ELSE [num |-> 0, den |-> 1]]

calculate_kpis_nonzero_guard(frame) ==
    LET total_income == SumAmount(frame.blocks, {T_Income})
        total_expenses == SumAmount(frame.blocks, {T_Fixed, T_Variable})
        total_investments == SumAmount(frame.blocks, {T_Investment})
        net_income == total_income + total_expenses
    IN  [total_income |-> total_income,
         total_expenses |-> Abs(total_expenses),
         total_investments |-> Abs(total_investments),
         net_income |-> net_income,
         savings_rate |-> IF total_income # 0
                          THEN [num |-> net_income * 100, den |-> total_income]
                          ELSE [num |-> 0, den |-> 1]]

\* savings_rate is the exact quotient num / den (den > 0); Python computes
\* its nearest float
calculate_kpis(frame) ==
    LET total_income == SumAmount(frame.blocks, {T_Income})
        total_expenses == SumAmount(frame.blocks, {T_Fixed, T_Variable})
        total_investments == SumAmount(frame.blocks, {T_Investment})
        net_income == total_income + total_expenses
    IN  [total_income |-> total_income,
         total_expenses |-> Abs(total_expenses),
         total_investments |-> Abs(total_investments),
         net_income |-> net_income,
         savings_rate |-> IF total_income > 0
                          THEN [num |-> net_income * 100, den |-> total_income]
                          ELSE [num |-> 0, den |-> 1]]

\* -------------------------------------------------------------------- CSV

RECURSIVE Join(_, _)
\* sep.join(parts) for texts
Join(parts, sep) ==
    IF parts = <<>> THEN <<>>
    ELSE IF Len(parts) = 1 THEN Head(parts)
    ELSE Head(parts) \o sep \o Join(Tail(parts), sep)

\* text.split(sep) for a one-character separator: the pieces between
\* consecutive occurrences of sep
Split(s, sep) ==
    LET pos == {i \in 1..Len(s) : s[i] = sep}
        cnt == Cardinality(pos)
        at(k) == IF k = 0 THEN 0
                 ELSE IF k = cnt + 1 THEN Len(s) + 1
                 ELSE CHOOSE p \in pos : Cardinality({q \in pos : q < p}) = k - 1
    IN  [k \in 1..(cnt + 1) |-> SubSeq(s, at(k - 1) + 1, at(k) - 1)]

\* how to_csv writes one value: str(value); a missing value is written empty
CsvField(c) ==
    IF c.k = "int" THEN IntToText(c.n)
    ELSE IF c.k = "str" THEN c.s
    ELSE <<>>

RECURSIVE ExpandRows(_)
\* the rows of a run-length encoded frame, one by one
ExpandRows(blocks) ==
    IF blocks = <<>> THEN <<>>
    ELSE IF Head(blocks).n = 1
         THEN <<Head(blocks).cells>> \o ExpandRows(Tail(blocks))
         ELSE <<Head(blocks).cells>>
              \o ExpandRows(<<[cells |-> Head(blocks).cells,
                               n |-> Head(blocks).n - 1]>> \o Tail(blocks))

TextOf(name) ==
    CASE name = "Month" -> <<"M", "o", "n", "t", "h">>
      [] name = "Type" -> <<"T", "y", "p", "e">>
      [] name = "Category" -> <<"C", "a", "t", "e", "g", "o", "r", "y">>
      [] name = "Description" ->
            <<"D", "e", "s", "c", "r", "i", "p", "t", "i", "o", "n">>
      [] name = "Amount" -> <<"A", "m", "o", "u", "n", "t">>
      [] name = "Budget" -> <<"B", "u", "d", "g", "e", "t">>

ColumnNames == {"Month", "Type", "Category", "Description", "Amount", "Budget"}

\* df.to_csv(buffer, index=False): a header line, then one line per row,
\* fields separated by commas, every line ended by a line feed.  No field of
\* the frames written here holds a comma, a quote or a line feed, so none is
\* quoted.
ToCsv(frame) ==
    LET rows == ExpandRows(frame.blocks)
        header == Join([i \in 1..Len(frame.columns) |-> TextOf(frame.columns[i])],
                       <<",">>)
        line(r) == Join([i \in 1..Len(frame.columns) |-> CsvField(r[frame.columns[i]])],
                        <<",">>)
    IN  header \o <<"\n">>
        \o Join([i \in 1..Len(rows) |-> line(rows[i]) \o <<"\n">>], <<>>)

\* the texts read_csv reads as the missing value (of pandas' default list,
\* those the model's files can hold)
na_values ==
    {<<>>, <<"N", "A">>, <<"N", "a", "N">>, <<"n", "a", "n">>,
     <<"n", "u", "l", "l">>}

\* pd.read_csv(text) for a rectangular comma-separated text with a header
\* line of known column names: a column whose fields are all integer
\* literals or missing is numeric, any other column holds its texts as
\* they are (no trimming); a text with no line, or a line whose field count
\* differs from the header's, is a parse error (the call raises).
read_csv(text) ==
    LET all == Split(text, "\n")
        lines == IF all[Len(all)] = <<>> THEN SubSeq(all, 1, Len(all) - 1)
                 ELSE all
        fields == [i \in 1..Len(lines) |-> Split(lines[i], ",")]
        known(t) == \E c \in ColumnNames : TextOf(c) = t
        name(t) == CHOOSE c \in ColumnNames : TextOf(c) = t
        ncols == Len(fields[1])
        numeric(j) == \A i \in 2..Len(fields) :
                          fields[i][j] \in na_values \/ IsIntText(fields[i][j])
        cell(i, j) == IF fields[i][j] \in na_values THEN NaN
                      ELSE IF numeric(j) THEN IntCell(TextToInt(fields[i][j]))
                      ELSE StrCell(fields[i][j])
        columns == SelectSeq([j \in 1..ncols |-> name(fields[1][j])],
                             LAMBDA c : TRUE)
        row(i) == [cells |-> MakeCells(columns, [j \in 1..ncols |-> cell(i, j)]),
                   n |-> 1]
    IN  IF \/ lines = <<>>
           \/ \E j \in 1..ncols : ~known(fields[1][j])
           \/ \E i \in 2..Len(fields) : Len(fields[i]) # ncols
        THEN [ok |-> FALSE, df |-> EmptyFrame]
        ELSE [ok |-> TRUE,
              df |-> [columns |-> columns,
                      blocks |-> SelectSeq([i \in 1..(Len(fields) - 1) |-> row(i + 1)],
                                           LAMBDA b : TRUE)]]

\* --------------------------------------------------------------- template

M_January2025 == <<"J", "a", "n", "u", "a", "r", "y", "2", "0", "2", "5">>
M_February2025 == <<"F", "e", "b", "r", "u", "a", "r", "y", "2", "0", "2", "5">>
C_Salary == <<"S", "a", "l", "a", "r", "y">>
C_Rent == <<"R", "e", "n", "t">>
C_Food == <<"F", "o", "o", "d">>
C_Transportation ==
    <<"T", "r", "a", "n", "s", "p", "o", "r", "t", "a", "t", "i", "o", "n">>
D_MonthlySalary ==
    <<"M", "o", "n", "t", "h", "l", "y", " ", "s", "a", "l", "a", "r", "y">>
D_ApartmentRent ==
    <<"A", "p", "a", "r", "t", "m", "e", "n", "t", " ", "r", "e", "n", "t">>
D_Groceries == <<"G", "r", "o", "c", "e", "r", "i", "e", "s">>
D_GasAndParking ==
    <<"G", "a", "s", " ", "a", "n", "d", " ", "p", "a", "r", "k", "i", "n", "g">>

\* one row of a frame with the five columns of the template and the demo data
Row5(month, type, category, description, amount) ==
    [cells |-> MakeCells(<<"Month", "Type", "Category", "Description", "Amount">>,
                         <<StrCell(month), StrCell(type), StrCell(category),
                           StrCell(description), IntCell(amount)>>),
     n |-> 1]

\* pd.DataFrame(sample_data)
sample_data ==
    [columns |-> <<"Month", "Type", "Category", "Description", "Amount">>,
     blocks |-> <<
        Row5(M_January2025, T_Income, C_Salary, D_MonthlySalary, 5000),
        Row5(M_January2025, T_Fixed, C_Rent, D_ApartmentRent, -1200),
        Row5(M_January2025, T_Variable, C_Food, D_Groceries, -400),
        Row5(M_January2025, T_Variable, C_Transportation, D_GasAndParking, -150),
        Row5(M_February2025, T_Income, C_Salary, D_MonthlySalary, 5000),
        Row5(M_February2025, T_Fixed, C_Rent, D_ApartmentRent, -1200)>>]

\* the CSV text of the template
get_sample_data_download == ToCsv(sample_data)

\* the template as pd.read_csv reads it back
TemplateFrame == read_csv(get_sample_data_download).df

\* ---------------------------------------------------------------- uploads

\* MAX_SIZE = 10 * 1024 * 1024
MAX_SIZE == 10 * 1024 * 1024

MAX_ROWS == 10000

\* An uploaded file: its declared size, its name, and what the parser makes
\* of its bytes: parse.ok = FALSE when pd.read_csv / pd.read_excel raises,
\* else parse.df is the parsed frame.
UploadedFile(size, name, parse) ==
    [present |-> TRUE, size |-> size, name |-> name, parse |-> parse]

\* uploaded_file is None
NoFile ==
    [present |-> FALSE, size |-> 0, name |-> <<>>,
     parse |-> [ok |-> FALSE, df |-> EmptyFrame]]

\* name.endswith(suffix)
EndsWith(name, suffix) ==
    /\ Len(name) >= Len(suffix)
    /\ SubSeq(name, Len(name) - Len(suffix) + 1, Len(name)) = suffix

IsCsvName(name) == EndsWith(name, <<".", "c", "s", "v">>)

IsExcelName(name) ==
    \/ EndsWith(name, <<".", "x", "l", "s", "x">>)
    \/ EndsWith(name, <<".", "x", "l", "s">>)

\* if len(df) > MAX_ROWS: df = df.head(MAX_ROWS)
Truncate(frame) ==
    IF NRows(frame) > MAX_ROWS THEN HeadFrame(frame, MAX_ROWS) ELSE frame

TooLarge_ge(f) == f.size >= MAX_SIZE

\* uploaded_file.size > MAX_SIZE
TooLarge(f) == f.size > MAX_SIZE

\* The upload loader.  Returns the frame it returns, the steps it executed
\* in order, and `parsed`: the frame handed to validate_data_format (after
\* truncation), EmptyFrame when none was.
load_uploaded_file(f) ==
    IF TooLarge(f)
    THEN [df |-> EmptyFrame, parsed |-> EmptyFrame,
          steps |-> <<"size_check", "error_too_large">>]
    ELSE IF ~IsCsvName(f.name) /\ ~IsExcelName(f.name)
    THEN [df |-> EmptyFrame, parsed |-> EmptyFrame,
          steps |-> <<"size_check", "error_unsupported">>]
    ELSE LET reader == IF IsCsvName(f.name) THEN "read_csv" ELSE "read_excel"
         IN  IF ~f.parse.ok
             THEN [df |-> EmptyFrame, parsed |-> EmptyFrame,
                   steps |-> <<"size_check", reader, "except">>]
             ELSE LET long == NRows(f.parse.df) > MAX_ROWS
                      cut == Truncate(f.parse.df)
                      pre == <<"size_check", reader>>
                             \o (IF long THEN <<"head">> ELSE <<>>)
                             \o <<"validate_data_format">>
                  IN  IF ~validate_data_format(cut).is_valid
                      THEN [df |-> EmptyFrame, parsed |-> cut,
                            steps |-> Append(pre, "error_format")]
                      ELSE [df |-> clean_data(cut), parsed |-> cut,
                            steps |-> Append(pre, "clean_data")]

\* ----------------------------------------------------------- remote sheet

CACHE_TTL == 300

\* The body of load_google_sheets_data on the state `r` of the remote source:
\* r.reachable = FALSE when the fetch fails, r.parse as for an upload.
fetch_google_sheets(r) ==
    IF ~r.reachable \/ ~r.parse.ok THEN EmptyFrame
    ELSE IF ~validate_data_format(r.parse.df).is_valid THEN EmptyFrame
    ELSE clean_data(r.parse.df)

\* st.cache_data(ttl=CACHE_TTL): whether the memoized result is served at
\* time t
CacheHit(c, t) == c.present /\ t - c.ts < CACHE_TTL

\* the remote source when it cannot be reached
Unreachable == [reachable |-> FALSE, parse |-> [ok |-> FALSE, df |-> EmptyFrame]]

\* A cache entry: the time of the call that filled it, the value it returned
\* and (for the properties only) the name of the remote state it fetched.
NoCache ==
    [present |-> FALSE, ts |-> 0, value |-> EmptyFrame, fetched |-> "unreachable"]

\* load_google_sheets_data() at time t with cache c and the remote source
\* in the state r, named id: the value returned and the cache afterwards
load_google_sheets_data(c, t, r, id) ==
    IF CacheHit(c, t) THEN [value |-> c.value, cache |-> c, hit |-> TRUE]
    ELSE LET v == fetch_google_sheets(r)
         IN  [value |-> v,
              cache |-> [present |-> TRUE, ts |-> t, value |-> v,
                         fetched |-> id],
              hit |-> FALSE]

\* -------------------------------------------------------------- demo data

M_August2025 == <<"A", "u", "g", "u", "s", "t", "2", "0", "2", "5">>
M_September2025 ==
    <<"S", "e", "p", "t", "e", "m", "b", "e", "r", "2", "0", "2", "5">>
C_Freelance == <<"F", "r", "e", "e", "l", "a", "n", "c", "e">>
C_Housing == <<"H", "o", "u", "s", "i", "n", "g">>
C_Utilities == <<"U", "t", "i", "l", "i", "t", "i", "e", "s">>
C_Leisure == <<"L", "e", "i", "s", "u", "r", "e">>
D_MainJob == <<"M", "a", "i", "n", " ", "j", "o", "b">>
D_FreelanceWork ==
    <<"F", "r", "e", "e", "l", "a", "n", "c", "e", " ", "w", "o", "r", "k">>
D_Bills == <<"B", "i", "l", "l", "s">>
D_Entertainment ==
    <<"E", "n", "t", "e", "r", "t", "a", "i", "n", "m", "e", "n", "t">>

demo_data_repeated ==
    [columns |-> <<"Month", "Type", "Category", "Description", "Amount">>,
     blocks |-> <<
        Row5(M_August2025, T_Income, C_Salary, D_MainJob, 5000),
        Row5(M_August2025, T_Income, C_Freelance, D_FreelanceWork, 1200),
        Row5(M_August2025, T_Fixed, C_Housing, C_Rent, -1200),
        Row5(M_August2025, T_Fixed, C_Utilities, D_Bills, -400),
        Row5(M_August2025, T_Variable, C_Food, D_Groceries, -550),
        Row5(M_August2025, T_Variable, C_Leisure, D_Entertainment, -220),
        Row5(M_September2025, T_Income, C_Salary, D_MainJob, 5000),
        Row5(M_September2025, T_Income, C_Freelance, D_FreelanceWork, 1200),
        Row5(M_September2025, T_Fixed, C_Housing, C_Rent, -1200),
        Row5(M_September2025, T_Fixed, C_Utilities, D_Bills, -400),
        Row5(M_September2025, T_Variable, C_Food, D_Groceries, -550),
        Row5(M_September2025, T_Variable, C_Leisure, D_Entertainment, -220)>>]

\* pd.DataFrame(demo_data)
demo_data ==
    [columns |-> <<"Month", "Type", "Category", "Description", "Amount">>,
     blocks |-> <<
        Row5(M_August2025, T_Income, C_Salary, D_MainJob, 5000),
        Row5(M_August2025, T_Income, C_Freelance, D_FreelanceWork, 1200),
        Row5(M_August2025, T_Fixed, C_Housing, C_Rent, -1200),
        Row5(M_August2025, T_Fixed, C_Utilities, D_Bills, -400),
        Row5(M_August2025, T_Variable, C_Food, D_Groceries, -550),
        Row5(M_August2025, T_Variable, C_Leisure, D_Entertainment, -220),
        Row5(M_September2025, T_Income, C_Salary, D_MainJob, 5000),
        Row5(M_September2025, T_Income, C_Freelance, D_FreelanceWork, 1500),
        Row5(M_September2025, T_Fixed, C_Housing, C_Rent, -1200),
        Row5(M_September2025, T_Fixed, C_Utilities, D_Bills, -400),
        Row5(M_September2025, T_Variable, C_Food, D_Groceries, -600),
        Row5(M_September2025, T_Variable, C_Leisure, D_Entertainment, -200)>>]

\* --------------------------------------------------------------- resolver

UploadSucceeded_unchecked(f, up) == f.present

UploadSucceeded_inverted(f, up) == f.present /\ IsEmpty(up.df)

\* uploaded_file is not None, and not df.empty for the upload loader's df
UploadSucceeded(f, up) == f.present /\ ~IsEmpty(up.df)

RemoteSucceeded_inverted(value) == IsEmpty(value)

\* not df.empty for the remote loader's df
RemoteSucceeded(value) == ~IsEmpty(value)

RemoteLabel_demo == "demo"

\* the label returned with the remote loader's table
RemoteLabel == "google_sheets"

\* load_data_with_fallback() with the widget holding f, at time t, with
\* cache c and the remote source in the state r, named id.  trace lists the
\* sources tried, in order.
load_data_with_fallback(f, c, t, r, id) ==
    LET up == IF f.present THEN load_uploaded_file(f)
              ELSE [df |-> EmptyFrame, parsed |-> EmptyFrame, steps |-> <<>>]
        tried == IF f.present THEN <<"load_uploaded_file">> ELSE <<>>
    IN  IF UploadSucceeded(f, up)
        THEN [df |-> up.df, data_source |-> "uploaded", trace |-> tried,
              upload |-> up, remote_df |-> EmptyFrame, hit |-> FALSE,
              cache |-> c]
        ELSE LET gs == load_google_sheets_data(c, t, r, id)
                 tried2 == Append(tried, "load_google_sheets_data")
             IN  IF RemoteSucceeded(gs.value)
                 THEN [df |-> gs.value, data_source |-> RemoteLabel,
                       trace |-> tried2, upload |-> up,
                       remote_df |-> gs.value, hit |-> gs.hit,
                       cache |-> gs.cache]
                 ELSE [df |-> demo_data, data_source |-> "demo",
                       trace |-> Append(tried2, "demo_data"), upload |-> up,
                       remote_df |-> gs.value, hit |-> gs.hit,
                       cache |-> gs.cache]

\* ----------------------------------------------------------------- inputs

\* the longest time the model's clock reaches, in seconds
MaxTime == 300

\* the largest run length of a block of the frames of SpecPure
MaxRun == 2

Cols4 == <<"Month", "Type", "Category", "Amount">>
Cols5 == <<"Month", "Type", "Category", "Description", "Amount">>

\* the cells of one row over the columns `columns`
Cells(columns, month, type, category, description, amount) ==
    MakeCells(columns,
              [j \in 1..Len(columns) |->
                  CASE columns[j] = "Month" -> month
                    [] columns[j] = "Type" -> type
                    [] columns[j] = "Category" -> category
                    [] columns[j] = "Description" -> description
                    [] columns[j] = "Amount" -> amount
                    [] OTHER -> NaN])

Block(cells, n) == [cells |-> cells, n |-> n]

Frame(columns, blocks) == [columns |-> columns, blocks |-> blocks]

\* columns without the column c
Without(columns, c) == SelectSeq(columns, LAMBDA x : x # c)

A_abc == StrCell(<<"a", "b", "c">>)
A_m400 == StrCell(<<"-", "4", "0", "0">>)
A_5000 == StrCell(<<"5", "0", "0", "0">>)
A_7 == StrCell(<<"7">>)

IncomeRow(columns, amount) ==
    Cells(columns, StrCell(M_January2025), StrCell(T_Income),
          StrCell(C_Salary), StrCell(D_MonthlySalary), amount)

ExpenseRow(columns, amount) ==
    Cells(columns, StrCell(M_February2025), StrCell(<<" ">> \o T_Fixed),
          StrCell(C_Rent \o <<" ">>), NaN, amount)

\* frames a parse of an upload or of the remote sheet can produce
F_Mixed ==
    Frame(Cols4, <<Block(IncomeRow(Cols4, A_5000), 1),
                   Block(ExpenseRow(Cols4, A_abc), 1),
                   Block(ExpenseRow(Cols4, A_m400), 1)>>)
F_Small ==
    Frame(Cols5, <<Block(IncomeRow(Cols5, IntCell(3000)), 1),
                   Block(ExpenseRow(Cols5, IntCell(-1000)), 2)>>)
F_AllBad == Frame(Cols4, <<Block(ExpenseRow(Cols4, A_abc), 2)>>)
F_AllNaN == Frame(Cols4, <<Block(IncomeRow(Cols4, NaN), 1)>>)
F_Missing(c) ==
    Frame(Without(Cols5, c),
          <<Block(IncomeRow(Without(Cols5, c), IntCell(5000)), 1),
            Block(ExpenseRow(Without(Cols5, c), IntCell(-1200)), 1)>>)
F_HeaderOnly == Frame(Cols4, <<>>)
F_HeaderOnlyMissing == Frame(Without(Cols4, "Type"), <<>>)
F_Exact == Frame(Cols4, <<Block(IncomeRow(Cols4, IntCell(1)), MAX_ROWS)>>)
F_Over1 ==
    Frame(Cols4, <<Block(IncomeRow(Cols4, IntCell(1)), MAX_ROWS),
                   Block(ExpenseRow(Cols4, IntCell(-1)), 1)>>)
F_Big ==
    Frame(Cols4, <<Block(IncomeRow(Cols4, IntCell(2)), 4000),
                   Block(ExpenseRow(Cols4, IntCell(-1)), 7000),
                   Block(IncomeRow(Cols4, IntCell(3)), 4000)>>)
F_BigBad ==
    Frame(Cols4, <<Block(IncomeRow(Cols4, A_7), 9999),
                   Block(ExpenseRow(Cols4, A_abc), 1),
                   Block(ExpenseRow(Cols4, A_m400), 5000)>>)
F_BigNaN ==
    Frame(Cols4, <<Block(IncomeRow(Cols4, NaN), 3),
                   Block(ExpenseRow(Cols4, IntCell(-5)), 14997)>>)
F_BigTailBad ==
    Frame(Cols4, <<Block(IncomeRow(Cols4, A_7), MAX_ROWS),
                   Block(ExpenseRow(Cols4, A_abc), 5000)>>)
F_BigAllBad == Frame(Cols4, <<Block(ExpenseRow(Cols4, A_abc), 15000)>>)
F_BigMissing ==
    Frame(Without(Cols4, "Amount"),
          <<Block(IncomeRow(Without(Cols4, "Amount"), NaN), 15000)>>)

ParseError == [ok |-> FALSE, df |-> EmptyFrame]

Parsed(frame) == [ok |-> TRUE, df |-> frame]

UploadFrames ==
    {TemplateFrame, F_Mixed, F_Small, F_AllBad, F_AllNaN, F_HeaderOnly,
     F_HeaderOnlyMissing, F_Exact, F_Over1, F_Big, F_BigBad, F_BigNaN,
     F_BigTailBad, F_BigAllBad, F_BigMissing}
    \cup {F_Missing(Cols4[i]) : i \in 1..Len(Cols4)}

N_csv == <<"t", ".", "c", "s", "v">>
N_xlsx == <<"t", ".", "x", "l", "s", "x">>
N_xls == <<"t", ".", "x", "l", "s">>
N_CSV == <<"T", ".", "C", "S", "V">>

\* the files the widget can hand over: every size and name with a few
\* contents, and every content as a CSV file of the largest accepted size
Files ==
    {UploadedFile(size, name, Parsed(F_Small)) :
        size \in {MAX_SIZE - 1, MAX_SIZE, MAX_SIZE + 1},
        name \in {N_csv, N_xlsx, N_xls, N_CSV}}
    \cup {UploadedFile(MAX_SIZE, N_csv, Parsed(frame)) : frame \in UploadFrames}
    \cup {UploadedFile(MAX_SIZE, name, ParseError) : name \in {N_csv, N_xlsx}}
    \cup {UploadedFile(MAX_SIZE + 1, N_csv, Parsed(F_Big)),
          UploadedFile(MAX_SIZE + 1, N_xls, ParseError)}

\* the states of the remote sheet, by name
RemoteStates == {"unreachable", "garbled", "valid", "all_bad", "missing_column"}

\* what a fetch of GOOGLE_SHEET_URL gives in each
RemoteOf(id) ==
    CASE id = "unreachable" -> Unreachable
      [] id = "garbled" -> [reachable |-> TRUE, parse |-> ParseError]
      [] id = "valid" -> [reachable |-> TRUE, parse |-> Parsed(F_Mixed)]
      [] id = "all_bad" -> [reachable |-> TRUE, parse |-> Parsed(F_AllBad)]
      [] id = "missing_column" ->
            [reachable |-> TRUE, parse |-> Parsed(F_Missing("Category"))]

\* ------------------------------------------------------------------ state


vars ==
    <<now, remote, cache, uploaded_file, df, data_source, kpis, run,
      raw, stage, validation, cleaned, pure_kpis>>

resolver_vars == <<now, remote, cache, uploaded_file, df, data_source, kpis, run>>

pure_vars == <<raw, stage, validation, cleaned, pure_kpis>>

\* the KPIs of a table of no rows (calculate_kpis reads the columns Type and
\* Amount, which a frame without columns does not have)
ZeroKpis == calculate_kpis(Frame(Cols5, <<>>))

\* run.trace: the sources tried, in order; run.steps: the steps of the upload
\* loader; run.hit: whether the remote loader answered from its cache
NoRun == [trace |-> <<>>, steps |-> <<>>, hit |-> FALSE]

PureIdle ==
    /\ raw = EmptyFrame
    /\ stage = "idle"
    /\ validation = validate_data_format(EmptyFrame)
    /\ cleaned = EmptyFrame
    /\ pure_kpis = ZeroKpis

Init ==
    /\ now = 0
    /\ remote \in RemoteStates
    /\ cache = NoCache
    /\ uploaded_file = NoFile
    /\ df = EmptyFrame
    /\ data_source = "none"
    /\ kpis = ZeroKpis
    /\ run = NoRun
    /\ PureIdle

\* One run of the script (main): the resolver, then the KPIs of the table
\* under the default filters, which select every row.  Runs do not overlap,
\* and the clock and the remote sheet are taken as fixed during one.
Main(f) ==
    LET res == load_data_with_fallback(f, cache, now, RemoteOf(remote), remote)
    IN  /\ data_source = "none"
        /\ uploaded_file' = f
        /\ df' = res.df
        /\ data_source' = res.data_source
        /\ cache' = res.cache
        /\ kpis' = calculate_kpis(res.df)
        /\ run' = [trace |-> res.trace, steps |-> res.upload.steps,
                   hit |-> res.hit]
        /\ UNCHANGED <<now, remote>>
        /\ UNCHANGED pure_vars

\* the run ends: its locals are gone, the cache stays
EndRun ==
    /\ data_source # "none"
    /\ uploaded_file' = NoFile
    /\ df' = EmptyFrame
    /\ data_source' = "none"
    /\ kpis' = ZeroKpis
    /\ run' = NoRun
    /\ UNCHANGED <<now, remote, cache>>
    /\ UNCHANGED pure_vars

\* between runs the remote sheet changes, or becomes (un)reachable
RemoteChange(r) ==
    /\ data_source = "none"
    /\ r # remote
    /\ remote' = r
    /\ UNCHANGED <<now, cache, uploaded_file, df, data_source, kpis, run>>
    /\ UNCHANGED pure_vars

\* between runs half of the cache's time to live passes
Tick ==
    /\ data_source = "none"
    /\ now + CACHE_TTL \div 2 <= MaxTime
    /\ now' = now + CACHE_TTL \div 2
    /\ UNCHANGED <<remote, cache, uploaded_file, df, data_source, kpis, run>>
    /\ UNCHANGED pure_vars

Next ==
    \/ \E f \in Files \cup {NoFile} : Main(f)
    \/ EndRun
    \/ \E r \in RemoteStates : RemoteChange(r)
    \/ Tick

Spec == Init /\ [][Next]_vars

\* ------------------------------------------------- the pipeline on a frame

T_Other == <<"O", "t", "h", "e", "r">>

MonthCells ==
    {StrCell(M_January2025), StrCell(<<" ">> \o M_February2025 \o <<"\t", " ">>),
     IntCell(202501), NaN}

TypeCells ==
    {StrCell(T_Income), StrCell(<<" ">> \o T_Fixed), StrCell(T_Variable \o <<" ">>),
     StrCell(T_Investment), StrCell(T_Other), NaN}

CategoryCells == {StrCell(C_Rent), StrCell(<<" ", " ">> \o C_Food \o <<" ">>), NaN}

DescriptionCells == {StrCell(D_Groceries), StrCell(<<" ">> \o D_Bills), NaN}

AmountCells == {IntCell(5000), IntCell(-1200), IntCell(0), A_m400, A_abc, NaN}

\* every row over the columns `columns`
Rows(columns) ==
    {Cells(columns, m, t, c, d, a) :
        m \in MonthCells, t \in TypeCells, c \in CategoryCells,
        d \in (IF "Description" \in {columns[i] : i \in 1..Len(columns)}
               THEN DescriptionCells ELSE {NaN}),
        a \in AmountCells}

\* rows that differ in Type and Amount only
PlainRows(columns) ==
    {Cells(columns, StrCell(M_January2025), t, StrCell(C_Rent),
           StrCell(D_Groceries), a) :
        t \in TypeCells, a \in AmountCells}

ColumnLists ==
    {Cols4, Cols5}
    \cup {Without(Cols5, Cols4[i]) : i \in 1..Len(Cols4)}
    \cup {Without(Cols4, Cols4[i]) : i \in 1..Len(Cols4)}

\* the frames the pipeline is run on: one block of any row, two blocks of
\* plain rows, no row at all, over the full and the deficient column lists,
\* and the template as read back
RawTables ==
    UNION {{Frame(cols, <<Block(r, n)>>) : r \in Rows(cols), n \in 1..MaxRun} :
              cols \in {Cols4, Cols5}}
    \cup {Frame(Cols4, <<Block(r1, 1), Block(r2, n)>>) :
            r1 \in PlainRows(Cols4), r2 \in PlainRows(Cols4), n \in 1..MaxRun}
    \cup UNION {{Frame(cols, <<Block(r, 1)>>) : r \in PlainRows(cols)} :
                  cols \in ColumnLists}
    \cup {Frame(cols, <<>>) : cols \in ColumnLists}
    \cup {EmptyFrame, TemplateFrame}

InitPure ==
    /\ now = 0
    /\ remote = "unreachable"
    /\ cache = NoCache
    /\ uploaded_file = NoFile
    /\ df = EmptyFrame
    /\ data_source = "none"
    /\ kpis = ZeroKpis
    /\ run = NoRun
    /\ raw \in RawTables
    /\ stage = "raw"
    /\ validation = validate_data_format(EmptyFrame)
    /\ cleaned = EmptyFrame
    /\ pure_kpis = ZeroKpis

Validate ==
    /\ stage = "raw"
    /\ validation' = validate_data_format(raw)
    /\ stage' = "validated"
    /\ UNCHANGED <<raw, cleaned, pure_kpis>>
    /\ UNCHANGED resolver_vars

\* the loaders clean a frame only once it passed validation
Clean ==
    /\ stage = "validated"
    /\ validation.is_valid
    /\ cleaned' = clean_data(raw)
    /\ stage' = "cleaned"
    /\ UNCHANGED <<raw, validation, pure_kpis>>
    /\ UNCHANGED resolver_vars

Kpis ==
    /\ stage = "cleaned"
    /\ pure_kpis' = calculate_kpis(cleaned)
    /\ stage' = "done"
    /\ UNCHANGED <<raw, validation, cleaned>>
    /\ UNCHANGED resolver_vars

NextPure == Validate \/ Clean \/ Kpis

SpecPure == InitPure /\ [][NextPure]_vars

\* ================================================================ claims
\* Under Spec the properties speak of a run in progress (data_source is not
\* "none"): uploaded_file is the file the run was given, remote the state
\* of the remote sheet during it, cache the cache as the run left it.

InRun == data_source # "none"

\* what the upload loader returns for the run's file
UploadResult == load_uploaded_file(uploaded_file)

Tried(source) == \E i \in 1..Len(run.trace) : run.trace[i] = source

LastTried == run.trace[Len(run.trace)]

\* the frame a fetch of the remote sheet parses to, in the state named id
RemoteFrame(id) == RemoteOf(id).parse.df

\* C1: whatever the upload (none, rejected, cleaned down to zero rows, loaded)
\* and whatever the remote source (valid, invalid, unreachable), the table
\* the resolver returns has at least one row.
C1_NeverEmpty == InRun => (~IsEmpty(df) /\ NRows(df) >= 1)

\* C1 witness: a run in which the upload loader and the remote loader both
\* gave an empty table and the demo table was returned.
C1_Witness ==
    /\ data_source = "demo"
    /\ uploaded_file.present
    /\ run.trace = <<"load_uploaded_file", "load_google_sheets_data", "demo_data">>
    /\ NRows(df) = 12

\* the upload is valid in the claim's sense: within the size limit, of a
\* supported extension, parseable, and passing validate_data_format
ValidUpload ==
    /\ uploaded_file.present
    /\ uploaded_file.size <= MAX_SIZE
    /\ (IsCsvName(uploaded_file.name) \/ IsExcelName(uploaded_file.name))
    /\ uploaded_file.parse.ok
    /\ validate_data_format(Truncate(uploaded_file.parse.df)).is_valid

\* some row among those kept by the truncation has an Amount that coerces to
\* a number
SomeNumericAmount(frame) ==
    \E i \in 1..Len(frame.blocks) :
        ~IsNull(ToNumeric(frame.blocks[i].cells["Amount"]))

\* C2 as stated: a present, valid upload always gives provenance `uploaded`
\* with the table built from the upload, whatever the remote source.
C2_Original ==
    (InRun /\ ValidUpload) =>
        /\ data_source = "uploaded"
        /\ df = clean_data(Truncate(uploaded_file.parse.df))

\* C2 amended: a present, valid upload with at least one row (among the
\* first MAX_ROWS) whose Amount is numeric gives provenance `uploaded` with
\* the table built from the upload, whatever the remote source.
C2_ValidUploadWins ==
    (InRun /\ ValidUpload /\ SomeNumericAmount(Truncate(uploaded_file.parse.df))) =>
        /\ data_source = "uploaded"
        /\ df = clean_data(Truncate(uploaded_file.parse.df))
        /\ run.trace = <<"load_uploaded_file">>

\* C2 witness: such an upload wins while the remote sheet is valid and its
\* cached table is at hand.
C2_Witness ==
    /\ ValidUpload
    /\ SomeNumericAmount(Truncate(uploaded_file.parse.df))
    /\ data_source = "uploaded"
    /\ remote = "valid"
    /\ CacheHit(cache, now)
    /\ ~IsEmpty(cache.value)

\* the sources are tried in the order upload, remote, demo, and the table
\* of the first non-empty one is returned
StrictOrder ==
    /\ run.trace \in
         {<<"load_uploaded_file">>,
          <<"load_uploaded_file", "load_google_sheets_data">>,
          <<"load_uploaded_file", "load_google_sheets_data", "demo_data">>,
          <<"load_google_sheets_data">>,
          <<"load_google_sheets_data", "demo_data">>}
    /\ Tried("load_uploaded_file") <=> uploaded_file.present
    /\ (uploaded_file.present /\ ~IsEmpty(UploadResult.df)) =>
          (run.trace = <<"load_uploaded_file">> /\ df = UploadResult.df)
    /\ Tried("load_google_sheets_data") =>
          /\ uploaded_file.present => IsEmpty(UploadResult.df)
          /\ cache.present
    /\ LastTried = "load_google_sheets_data" =>
          (df = cache.value /\ ~IsEmpty(df))
    /\ Tried("demo_data") =>
          /\ IsEmpty(cache.value)
          /\ df = demo_data
          /\ data_source = "demo"

\* C3 as stated: strict order with short-circuit, and with no upload and an
\* unreachable remote source the result is the demo table, provenance demo.
C3_Original ==
    InRun =>
        /\ StrictOrder
        /\ (~uploaded_file.present /\ remote = "unreachable") =>
              (data_source = "demo" /\ df = demo_data /\ ~IsEmpty(df))

\* C3 amended: strict order with short-circuit, and with no upload, an
\* unreachable remote source and no unexpired cached non-empty result of an
\* earlier fetch, the result is the demo table with provenance demo.
C3_StrictOrder ==
    InRun =>
        /\ StrictOrder
        /\ (/\ ~uploaded_file.present
            /\ remote = "unreachable"
            /\ ~(run.hit /\ ~IsEmpty(cache.value))) =>
              (data_source = "demo" /\ df = demo_data /\ ~IsEmpty(df))

\* C3 witness: no upload, the fetch of the unreachable sheet failed, and the
\* demo table was returned.
C3_Witness ==
    /\ InRun
    /\ ~uploaded_file.present
    /\ remote = "unreachable"
    /\ ~run.hit
    /\ run.trace = <<"load_google_sheets_data", "demo_data">>
    /\ data_source = "demo"

\* C4 as stated: the label is one of uploaded, remote, demo, and it is
\* `remote` exactly when the remote loader supplied the table.
C4_Original ==
    InRun =>
        /\ data_source \in {"uploaded", "remote", "demo"}
        /\ data_source = "remote" <=> LastTried = "load_google_sheets_data"

\* C4 amended: the label is one of uploaded, google_sheets, demo, and it is
\* `google_sheets` exactly when the remote loader supplied the table.
C4_Labels ==
    InRun =>
        /\ data_source \in {"uploaded", "google_sheets", "demo"}
        /\ data_source = "google_sheets" <=>
              (LastTried = "load_google_sheets_data" /\ df = cache.value)
        /\ data_source = "uploaded" <=> LastTried = "load_uploaded_file"
        /\ data_source = "demo" <=> LastTried = "demo_data"

\* C4 witness: the remote loader supplied the table after a failed upload.
C4_Witness ==
    /\ data_source = "google_sheets"
    /\ uploaded_file.present
    /\ LastTried = "load_google_sheets_data"

LacksRequired(frame) ==
    \E col \in {"Month", "Type", "Category", "Amount"} :
        col \notin ColumnSet(frame)

NotCoercible(c) == ~IsNull(c) /\ IsNull(ToNumeric(c))

\* C6 as stated: a non-empty raw table with the four required columns and at
\* least one Amount that cannot be coerced to a number fails validation with
\* the reason "Amount column must contain numeric values".
C6_Original ==
    (/\ stage # "raw"
     /\ ~IsEmpty(raw)
     /\ ~LacksRequired(raw)
     /\ \E i \in 1..Len(raw.blocks) : NotCoercible(raw.blocks[i].cells["Amount"])) =>
        /\ ~validation.is_valid
        /\ validation.error_message = "Amount column must contain numeric values"

Pipelined == stage \in {"cleaned", "done"}

\* every row of the cleaned table has a numeric Amount and trimmed string
\* Month, Type and Category
AmountAndTextClean ==
    \A i \in 1..Len(cleaned.blocks) :
        LET cells == cleaned.blocks[i].cells
        IN  /\ cells["Amount"].k = "int"
            /\ \A c \in {"Month", "Type", "Category"} :
                  cells[c].k = "str" /\ IsTrimmed(cells[c].s)

\* C7 as stated: after validation, every cleaned row has a non-null numeric
\* Amount, non-null trimmed string Month, Type, Category, and a populated
\* Description.
C7_Original ==
    Pipelined =>
        /\ AmountAndTextClean
        /\ \A i \in 1..Len(cleaned.blocks) :
              /\ "Description" \in DOMAIN cleaned.blocks[i].cells
              /\ ~IsNull(cleaned.blocks[i].cells["Description"])

\* C7 amended: after validation, every cleaned row has a non-null numeric
\* Amount and non-null trimmed string Month, Type, Category; the Description
\* column is always present; it is populated (a copy of the cleaned Category)
\* when the raw table had no Description column, and otherwise holds the raw
\* table's Description cells unchanged, a missing one staying missing.
C7_CleanInvariant ==
    Pipelined =>
        /\ AmountAndTextClean
        /\ "Description" \in ColumnSet(cleaned)
        /\ \A i \in 1..Len(cleaned.blocks) :
              LET cells == cleaned.blocks[i].cells
              IN  /\ "Description" \in DOMAIN cells
                  /\ "Description" \notin ColumnSet(raw) =>
                        (cells["Description"] = cells["Category"]
                         /\ ~IsNull(cells["Description"]))
                  /\ "Description" \in ColumnSet(raw) =>
                        \E j \in 1..Len(raw.blocks) :
                            /\ raw.blocks[j].cells["Description"] = cells["Description"]
                            /\ ~IsNull(ToNumeric(raw.blocks[j].cells["Amount"]))
                            /\ raw.blocks[j].n = cleaned.blocks[i].n

\* C7 witness: a validated table with a missing Month, a padded Category and
\* no Description column was cleaned and kept its row.
C7_Witness ==
    /\ stage = "cleaned"
    /\ "Description" \notin ColumnSet(raw)
    /\ NRows(cleaned) > 0
    /\ \E i \in 1..Len(raw.blocks) :
          /\ IsNull(raw.blocks[i].cells["Month"])
          /\ raw.blocks[i].cells["Category"].k = "str"
          /\ ~IsTrimmed(raw.blocks[i].cells["Category"].s)
          /\ ~IsNull(ToNumeric(raw.blocks[i].cells["Amount"]))

StepDone(step) == \E i \in 1..Len(run.steps) : run.steps[i] = step

\* C8: an upload whose declared size exceeds 10 MiB yields an empty table and
\* no parse, truncation, validation or cleaning step runs on it; a file of
\* exactly 10 MiB is not rejected by the size check.
C8_SizeCheckFirst ==
    (InRun /\ uploaded_file.present) =>
        /\ run.steps[1] = "size_check"
        /\ uploaded_file.size > 10 * 1024 * 1024 =>
              /\ run.steps = <<"size_check", "error_too_large">>
              /\ \A step \in {"read_csv", "read_excel", "head",
                              "validate_data_format", "clean_data"} :
                    ~StepDone(step)
              /\ UploadResult.df = EmptyFrame
              /\ data_source # "uploaded"
        /\ uploaded_file.size = 10 * 1024 * 1024 =>
              /\ ~StepDone("error_too_large")
              /\ (IsCsvName(uploaded_file.name) \/ IsExcelName(uploaded_file.name)) =>
                    (StepDone("read_csv") \/ StepDone("read_excel"))

\* C8 witness: a well-formed CSV file declared one byte over the limit was
\* turned away.
C8_Witness ==
    /\ InRun
    /\ uploaded_file.present
    /\ uploaded_file.size = 10 * 1024 * 1024 + 1
    /\ uploaded_file.parse.ok
    /\ validate_data_format(uploaded_file.parse.df).is_valid
    /\ IsCsvName(uploaded_file.name)
    /\ StepDone("error_too_large")

\* an accepted upload that parsed to more than 10,000 rows
LongUpload == ValidUpload /\ NRows(uploaded_file.parse.df) > 10000

\* the rows before block j of a frame
RowsBefore(frame, j) == CountRows(SubSeq(frame.blocks, 1, j - 1))

\* how many rows of block j are among the first k rows of a frame
KeptOf(frame, j, k) ==
    LET room == k - RowsBefore(frame, j)
    IN  IF room <= 0 THEN 0
        ELSE IF frame.blocks[j].n <= room THEN frame.blocks[j].n ELSE room

\* one raw row as the cleaner leaves it
CleanedCells(frame, cells) ==
    LET std == StandardizeText(CoerceAmount(cells))
    IN  IF "Description" \in ColumnSet(frame) THEN std ELSE AddDescription(std)

\* the rows among the first k of a frame whose Amount is numeric, cleaned,
\* in their original order
NumericPrefix(frame, k) ==
    LET idx == SelectSeq([j \in 1..Len(frame.blocks) |-> j],
                         LAMBDA j : /\ KeptOf(frame, j, k) > 0
                                    /\ ~IsNull(ToNumeric(frame.blocks[j].cells["Amount"])))
    IN  [m \in 1..Len(idx) |->
            [cells |-> CleanedCells(frame, frame.blocks[idx[m]].cells),
             n |-> KeptOf(frame, idx[m], k)]]

AllNumericPrefix(frame, k) ==
    \A j \in 1..Len(frame.blocks) :
        KeptOf(frame, j, k) > 0 => ~IsNull(ToNumeric(frame.blocks[j].cells["Amount"]))

\* C9 as stated: an accepted upload of more than 10,000 rows is returned as
\* exactly 10,000 rows, the first 10,000 parsed rows in order, and is not
\* rejected for its row count.
C9_Original ==
    (InRun /\ LongUpload) =>
        /\ data_source = "uploaded"
        /\ NRows(df) = 10000
        /\ df.blocks = NumericPrefix(uploaded_file.parse.df, 10000)

\* C9 amended: an accepted upload of more than 10,000 rows is cut to its
\* first 10,000 rows before validation and cleaning; the table the loader
\* returns holds, in original order, exactly those of the first 10,000
\* parsed rows whose Amount is numeric, so at most 10,000 rows, and exactly
\* 10,000 when every one of them has a numeric Amount; the upload is not
\* rejected for its row count.
C9_TruncatedPrefix ==
    (InRun /\ LongUpload) =>
        /\ StepDone("head")
        /\ StepDone("clean_data")
        /\ UploadResult.df.blocks = NumericPrefix(uploaded_file.parse.df, 10000)
        /\ NRows(UploadResult.df) <= 10000
        /\ AllNumericPrefix(uploaded_file.parse.df, 10000) =>
              (NRows(UploadResult.df) = 10000 /\ data_source = "uploaded")
        /\ NRows(UploadResult.df) > 0 =>
              (data_source = "uploaded" /\ df = UploadResult.df)

\* C9 witness: a 15,000-row upload, numeric throughout, came back as its
\* first 10,000 rows.
C9_Witness ==
    /\ InRun
    /\ LongUpload
    /\ NRows(uploaded_file.parse.df) = 15000
    /\ AllNumericPrefix(uploaded_file.parse.df, 10000)
    /\ Len(df.blocks) = 2
    /\ NRows(df) = 10000
    /\ data_source = "uploaded"

\* the template went through validate_data_format, clean_data and
\* calculate_kpis with no row dropped
TemplateRoundTrip ==
    /\ read_csv(get_sample_data_download).ok
    /\ validation.is_valid
    /\ NRows(cleaned) = NRows(sample_data)
    /\ NRows(cleaned) = 6
    /\ cleaned = sample_data

\* C10 as stated: the template, read back, validated and cleaned, loses no
\* row and has totalIncome 10000, totalExpenses 1750, savingsRate 82.5.
C10_Original ==
    (raw = TemplateFrame /\ stage = "done") =>
        /\ TemplateRoundTrip
        /\ pure_kpis.total_income = 10000
        /\ pure_kpis.total_expenses = 1750
        /\ pure_kpis.savings_rate.num * 10 = 825 * pure_kpis.savings_rate.den

\* C10 amended: the template, read back, validated and cleaned, loses no row
\* and has totalIncome 10000, totalExpenses 2950, savingsRate 70.5.
C10_TemplateKpis ==
    (raw = TemplateFrame /\ stage = "done") =>
        /\ TemplateRoundTrip
        /\ pure_kpis.total_income = 10000
        /\ pure_kpis.total_expenses = 2950
        /\ pure_kpis.net_income = 7050
        /\ pure_kpis.savings_rate.num * 10 = 705 * pure_kpis.savings_rate.den

\* C10 witness: the pipeline ran to the KPIs on the template.
C10_Witness ==
    /\ raw = TemplateFrame
    /\ stage = "done"
    /\ pure_kpis.total_income = 10000

\* the rows of a frame whose Month is `month`, in order
MonthRows(frame, month) ==
    SelectSeq(frame.blocks, LAMBDA b : b.cells["Month"] = StrCell(month))

\* whether the rows `rows` are single rows with the Types and the integer
\* Amounts listed, in order
RowsAre(rows, types, amounts) ==
    /\ Len(rows) = Len(types)
    /\ \A i \in 1..Len(rows) :
          /\ rows[i].n = 1
          /\ rows[i].cells["Type"] = StrCell(types[i])
          /\ rows[i].cells["Amount"] = IntCell(amounts[i])

DemoTypes == <<T_Income, T_Income, T_Fixed, T_Fixed, T_Variable, T_Variable>>

\* the table is the two-month table of 12 records of the demo data
IsDemoTable(frame) ==
    /\ NRows(frame) = 12
    /\ Len(frame.blocks) = 12
    /\ RowsAre(MonthRows(frame, M_August2025), DemoTypes,
               <<5000, 1200, -1200, -400, -550, -220>>)
    /\ RowsAre(MonthRows(frame, M_September2025), DemoTypes,
               <<5000, 1500, -1200, -400, -600, -200>>)

\* the rate num / den rounds to `tenths` tenths of a percent
RateAbout(rate, tenths) ==
    /\ (tenths * 10 - 5) * rate.den <= rate.num * 100
    /\ rate.num * 100 < (tenths * 10 + 5) * rate.den

\* C11 as stated: the table of the demo fallback is the fixed two-month
\* table of 12 records, and its KPIs are totalIncome 12700, totalExpenses
\* 4150 and a savingsRate of about 67.3%.
C11_Original ==
    data_source = "demo" =>
        /\ IsDemoTable(df)
        /\ kpis.total_income = 12700
        /\ kpis.total_expenses = 4150
        /\ RateAbout(kpis.savings_rate, 673)

\* C11 amended: the table of the demo fallback is the fixed two-month table
\* of 12 records, and its KPIs are totalIncome 12700, totalExpenses 4770,
\* netIncome 7930 and a savingsRate of about 62.4%.
C11_DemoKpis ==
    data_source = "demo" =>
        /\ IsDemoTable(df)
        /\ kpis.total_income = 12700
        /\ kpis.total_expenses = 4770
        /\ kpis.total_investments = 0
        /\ kpis.net_income = 7930
        /\ RateAbout(kpis.savings_rate, 624)

\* C11 witness: a run ended in the demo fallback after the upload and the
\* remote loader both failed.
C11_Witness ==
    /\ data_source = "demo"
    /\ uploaded_file.present
    /\ LastTried = "demo_data"
    /\ kpis.total_income = 12700

RECURSIVE TotalOf(_, _)
\* the sum of the Amounts of the rows of `blocks` whose Type is in `types`
TotalOf(blocks, types) ==
    IF blocks = <<>> THEN 0
    ELSE (IF \E t \in types : Head(blocks).cells["Type"] = StrCell(t)
          THEN Head(blocks).cells["Amount"].n * Head(blocks).n
          ELSE 0)
         + TotalOf(Tail(blocks), types)

\* C12: calculate_kpis returns on every cleaned table; when the Income
\* amounts sum to a value not greater than 0 the savingsRate is 0, and on a
\* table of no rows all five metrics are 0.
C12_ZeroIncomeEdge ==
    stage = "done" =>
        /\ pure_kpis.savings_rate.den > 0
        /\ TotalOf(cleaned.blocks, {T_Income}) <= 0 =>
              pure_kpis.savings_rate.num = 0
        /\ NRows(cleaned) = 0 =>
              /\ pure_kpis.total_income = 0
              /\ pure_kpis.total_expenses = 0
              /\ pure_kpis.total_investments = 0
              /\ pure_kpis.net_income = 0
              /\ pure_kpis.savings_rate.num = 0

\* C12 witness: the KPIs of a table whose Income amounts sum to less than 0
\* and whose net income is not 0.
C12_Witness ==
    /\ stage = "done"
    /\ TotalOf(cleaned.blocks, {T_Income}) < 0
    /\ pure_kpis.net_income # 0
    /\ pure_kpis.savings_rate.num = 0

\* the frame without its rows of Type Investment or of an unrecognized Type
CountedRows(frame) ==
    [columns |-> frame.columns,
     blocks |-> SelectSeq(frame.blocks,
                          LAMBDA b : \E t \in {T_Income, T_Fixed, T_Variable} :
                                        b.cells["Type"] = StrCell(t))]

\* rows of Type Investment or of an unrecognized Type do not change netIncome
UncountedRowsIgnored ==
    /\ calculate_kpis(CountedRows(cleaned)).net_income = pure_kpis.net_income
    /\ pure_kpis.net_income =
          TotalOf(cleaned.blocks, {T_Income})
          + TotalOf(cleaned.blocks, {T_Fixed, T_Variable})

\* C13 as stated: on every cleaned table netIncome = totalIncome -
\* totalExpenses, and rows of Type Investment or of an unrecognized Type
\* never change netIncome.
C13_Original ==
    stage = "done" =>
        /\ pure_kpis.net_income
              = pure_kpis.total_income - pure_kpis.total_expenses
        /\ UncountedRowsIgnored

\* C13 amended: on every cleaned table netIncome = totalIncome + the sum of
\* the Fixed and Variable amounts, which is totalIncome - totalExpenses when
\* that sum is not greater than 0 and totalIncome + totalExpenses when it is,
\* and rows of Type Investment or of an unrecognized Type never change
\* netIncome.
C13_NetIncome ==
    stage = "done" =>
        /\ TotalOf(cleaned.blocks, {T_Fixed, T_Variable}) <= 0 =>
              pure_kpis.net_income
                = pure_kpis.total_income - pure_kpis.total_expenses
        /\ TotalOf(cleaned.blocks, {T_Fixed, T_Variable}) > 0 =>
              pure_kpis.net_income
                = pure_kpis.total_income + pure_kpis.total_expenses
        /\ UncountedRowsIgnored

\* C13 witness: the KPIs of a table with a positive Fixed or Variable sum
\* and a row of Type Investment with a non-zero Amount.
C13_Witness ==
    /\ stage = "done"
    /\ TotalOf(cleaned.blocks, {T_Fixed, T_Variable}) > 0
    /\ TotalOf(cleaned.blocks, {T_Investment}) # 0
    /\ pure_kpis.net_income = pure_kpis.total_expenses

====
